---- MODULE Spec2Model ----
(***************************************************************************)
(* Model of NLP.py: the fairy-tale generator.                              *)
(*                                                                         *)
(*   SpecTheme  pick_background_music over theme strings (character        *)
(*              sequences typed piece by piece).                           *)
(*   SpecMix    mix_audio_files over narration length D, background        *)
(*              length B and fade_out_ms, audio held as one sample per     *)
(*              millisecond, with pydub's slicing, fade and overlay.       *)
(*   Spec       the Streamlit script: one script run per user interaction, *)
(*              st.button true only in the run its click caused.           *)
(***************************************************************************)
EXTENDS Integers, Sequences, FiniteSets, TLC

VARIABLES
    theme, typed, result, picked,
    narration, background, fade_out_ms, mix_pc,
    times_to_repeat, cut_bg, faded_bg, final_mix,
    feedback, pc, clicked, final_theme, voice_file, feedback_note,
    bg_music_path, tmp_files, trace, progress_bar, votes_rendered,
    uncaught, runs

themeVars == <<theme, typed, result, picked>>
mixVars == <<narration, background, fade_out_ms, mix_pc,
             times_to_repeat, cut_bg, faded_bg, final_mix>>
appVars == <<feedback, pc, clicked, final_theme, voice_file, feedback_note,
             bg_music_path, tmp_files, trace, progress_bar, votes_rendered,
             uncaught, runs>>
vars == <<themeVars, mixVars, appVars>>

Min(a, b) == IF a < b THEN a ELSE b
Max(a, b) == IF a > b THEN a ELSE b

(***************************************************************************)
(* Bounds.                                                                 *)
(***************************************************************************)
MaxPieces == 3
MaxD == 6
MaxB == 7
MaxFade == 8
MaxRuns == 2

(***************************************************************************)
(* Theme strings: sequences of one-character strings.                      *)
(***************************************************************************)
UpperCase == <<"A","B","C","D","E","F","G","H","I","J","K","L","M",
               "N","O","P","Q","R","S","T","U","V","W","X","Y","Z">>
LowerCase == <<"a","b","c","d","e","f","g","h","i","j","k","l","m",
               "n","o","p","q","r","s","t","u","v","w","x","y","z">>

\* str.lower() on one character
lower_char(c) ==
    IF \E i \in 1..Len(UpperCase) : UpperCase[i] = c
    THEN LowerCase[CHOOSE i \in 1..Len(UpperCase) : UpperCase[i] = c]
    ELSE c

\* a mutant of lower: the theme is compared as typed
lower_identity(s) == s

\* theme.lower()
lower(s) == [i \in 1..Len(s) |-> lower_char(s[i])]

\* Python's  key in s  on strings
str_in(key, s) ==
    \E off \in 0..(Len(s) - Len(key)) :
        \A i \in 1..Len(key) : s[off + i] = key[i]

DEFAULT_BG_MUSIC == "background_sound/fairy_tail_slow.wav"

THEME_MUSIC_MAP == <<
    [key |-> <<"s","p","a","c","e">>, music_file |-> "background_sound/space.wav"],
    [key |-> <<"f","a","n","t","a","s","t","i","c">>, music_file |-> "background_sound/fantasy.wav"],
    [key |-> <<"m","e","d","i","e","v","a","l">>, music_file |-> "background_sound/medieval.wav"],
    [key |-> <<"h","o","r","r","o","r">>, music_file |-> "background_sound/horror.wav"],
    [key |-> <<"s","e","a">>, music_file |-> "background_sound/sea.wav"],
    [key |-> <<"s","c","i","-","f","i">>, music_file |-> "background_sound/sci-fi.wav"],
    [key |-> <<"f","o","r","e","s","t">>, music_file |-> "background_sound/day_forest.wav"] >>

\* a mutant of the loop: the table is walked from its last entry
RECURSIVE scan_items_reversed(_, _)
scan_items_reversed(theme_lower, i) ==
    LET j == Len(THEME_MUSIC_MAP) + 1 - i IN
    IF i > Len(THEME_MUSIC_MAP) THEN DEFAULT_BG_MUSIC
    ELSE IF str_in(THEME_MUSIC_MAP[j].key, theme_lower)
         THEN THEME_MUSIC_MAP[j].music_file
         ELSE scan_items_reversed(theme_lower, i + 1)

\* the for loop of pick_background_music from table entry i on
RECURSIVE scan_items(_, _)
scan_items(theme_lower, i) ==
    IF i > Len(THEME_MUSIC_MAP) THEN DEFAULT_BG_MUSIC
    ELSE IF str_in(THEME_MUSIC_MAP[i].key, theme_lower)
         THEN THEME_MUSIC_MAP[i].music_file
         ELSE scan_items(theme_lower, i + 1)

pick_background_music(t) == scan_items(lower(t), 1)

\* what a user types: pieces of text, in either case
Pieces == {
    <<"S","P","A","C","E">>, <<"s","e","a">>, <<"s","E">>, <<"A">>,
    <<"f","o","r","e","s","t">>, <<"H","o","r","r","o","r">>,
    <<"s","c","i">>, <<"-","F","I">>,
    <<"m","e","d","i","e","v","a","l">>,
    <<"F","a","n","t","a","s","t","i","c">>,
    <<" ">>, <<"o","c","e","a","n">> }

InitTheme ==
    /\ theme = <<>>
    /\ typed = 0
    /\ result = ""
    /\ picked = FALSE

TypePiece ==
    /\ ~picked
    /\ typed < MaxPieces
    /\ typed' = typed + 1
    /\ \E p \in Pieces : theme' = theme \o p
    /\ UNCHANGED <<result, picked>>
    /\ UNCHANGED <<mixVars, appVars>>

Pick ==
    /\ ~picked
    /\ result' = pick_background_music(theme)
    /\ picked' = TRUE
    /\ UNCHANGED <<theme, typed>>
    /\ UNCHANGED <<mixVars, appVars>>

(***************************************************************************)
(* pydub's AudioSegment, one sample per millisecond.  A background sample  *)
(* is [pos, fade, gain_db]: pos its place in the source file, fade the     *)
(* step i of the fade that scaled it (volume from_power + scale_step * i;  *)
(* -1: not scaled by the fade), gain_db the gain applied afterwards.       *)
(* A narration sample is its place in the narration.                       *)
(***************************************************************************)
NoFade == 0 - 1

\* bytes slicing data[s:e] of Python, negative indices counted from the end
py_slice(data, s, e) ==
    LET n == Len(data)
        lo == IF s < 0 THEN Max(n + s, 0) ELSE Min(s, n)
        hi == IF e < 0 THEN Max(n + e, 0) ELSE Min(e, n)
    IN  IF hi <= lo THEN <<>> ELSE SubSeq(data, lo + 1, hi)

\* AudioSegment._parse_position
parse_position(seg, val) == IF val < 0 THEN Len(seg) - (0 - val) ELSE val

\* AudioSegment.__getitem__ with a slice  seg[start:stop]
getitem_slice(seg, start, stop) ==
    LET s0 == Min(start, Len(seg))
        e0 == Min(stop, Len(seg))
    IN  py_slice(seg, parse_position(seg, s0), parse_position(seg, e0))

\* AudioSegment.__getitem__ with one millisecond  seg[ms]
getitem_ms(seg, ms) ==
    py_slice(seg, parse_position(seg, ms), parse_position(seg, ms + 1))

\* AudioSegment.__mul__ :  seg * n
RECURSIVE seg_times(_, _)
seg_times(seg, n) == IF n <= 0 THEN <<>> ELSE seg \o seg_times(seg, n - 1)

scale(chunk, i) == [k \in 1..Len(chunk) |-> [chunk[k] EXCEPT !.fade = i]]

\* the loop of AudioSegment.fade:  chunk = self[start + i]  scaled by step i
RECURSIVE fade_chunks(_, _, _, _)
fade_chunks(seg, start, i, duration) ==
    IF i >= duration THEN <<>>
    ELSE scale(getitem_ms(seg, start + i), i)
         \o fade_chunks(seg, start, i + 1, duration)

\* AudioSegment.fade_out(duration) = fade(to_gain=-120, duration, end=inf)
fade_out(seg, duration) ==
    LET end == Len(seg)
        start == end - duration
        before_fade == getitem_slice(seg, 0, start)
        after_fade == scale(getitem_slice(seg, end, Len(seg)), duration)
    IN  before_fade \o fade_chunks(seg, start, 0, duration) \o after_fade

\* AudioSegment.__add__ with a number: apply_gain
apply_gain(seg, db) ==
    [k \in 1..Len(seg) |-> [seg[k] EXCEPT !.gain_db = @ + db]]

\* AudioSegment.overlay(seg2, position=0): seg2 is cut to what is left of
\* seg1, summed onto it, and the rest of seg1 follows (nar 0: no narration)
overlay(seg1, seg2) ==
    LET seg2_len == Min(Len(seg2), Len(seg1))
    IN  [k \in 1..Len(seg1) |->
            [bg |-> seg1[k], nar |-> IF k <= seg2_len THEN seg2[k] ELSE 0]]

\* the default of mix_audio_files' music_volume_db
music_volume_db == 0 - 15

\* a mutant of the loop test: <= for <
needs_loop_le(B, D) == B <= D

\* if len(background) < narration_duration
needs_loop(B, D) == B < D

\* a mutant of the repeat count: the + 1 is dropped
repeat_count_floor(D, B) == D \div B

\* times_to_repeat = (narration_duration // len(background)) + 1
repeat_count(D, B) == (D \div B) + 1

InitMix ==
    /\ \E D \in 1..MaxD : narration = [i \in 1..D |-> i]
    /\ \E B \in 1..MaxB :
          background = [i \in 1..B |-> [pos |-> i, fade |-> NoFade, gain_db |-> 0]]
    /\ fade_out_ms \in 1..MaxFade
    /\ mix_pc = "args"
    /\ times_to_repeat = 0
    /\ cut_bg = <<>>
    /\ faded_bg = <<>>
    /\ final_mix = <<>>

\* mix_audio_files; times_to_repeat 0: the loop branch was not taken
MixAudioFiles ==
    /\ mix_pc = "args"
    /\ LET narration_duration == Len(narration)
           loops == needs_loop(Len(background), narration_duration)
           times == IF loops THEN repeat_count(narration_duration, Len(background))
                    ELSE 0
           looped == IF loops THEN seg_times(background, times) ELSE background
           cut == getitem_slice(looped, 0, narration_duration)
           faded == fade_out(cut, fade_out_ms)
           quiet == apply_gain(faded, music_volume_db)
       IN  /\ times_to_repeat' = times
           /\ cut_bg' = cut
           /\ faded_bg' = faded
           /\ final_mix' = overlay(quiet, narration)
    /\ mix_pc' = "done"
    /\ UNCHANGED <<narration, background, fade_out_ms>>
    /\ UNCHANGED <<themeVars, appVars>>

(***************************************************************************)
(* The Streamlit script.  Every user interaction runs the script from the  *)
(* top; st.button is true only in the run caused by a click on it          *)
(* (clicked).  trace is the event log of the current run, progress_bar the *)
(* value of the bar, tmp_files the number of temporary files on disk,      *)
(* uncaught whether an exception left main(), votes_rendered whether the   *)
(* Like and Dislike buttons are on the page.                               *)
(***************************************************************************)
theme_options == { THEME_MUSIC_MAP[i].key : i \in 1..Len(THEME_MUSIC_MAP) }

\* texts typed into "Enter your custom theme:"
other_themes == { <<>>, <<"S","e","a">>, <<"o","c","e","a","n">> }

\* None, an upload pydub decodes, an upload it does not
voice_files == { "none", "wav", "broken" }

\* lines 60-69 of generate_fairy_tale
feedback_note_for(fb) ==
    IF fb = "like" THEN "maintain"
    ELSE IF fb = "dislike" THEN "different"
    ELSE ""

\* a mutant of main's test of the story: the test is dropped
story_unchecked(fairy_tale) == TRUE

\* if fairy_tale:  (None and "" are false)
story_truthy(fairy_tale) == fairy_tale = "story"

InitApp ==
    /\ feedback = "none"
    /\ pc = "idle"
    /\ clicked = "none"
    /\ final_theme \in theme_options
    /\ voice_file = "none"
    /\ feedback_note = ""
    /\ bg_music_path = ""
    /\ tmp_files = 0
    /\ trace = <<>>
    /\ progress_bar = 0
    /\ votes_rendered = FALSE
    /\ uncaught = FALSE
    /\ runs = 0

\* a script run in which st.button("Generate Fairy Tale") is false:
\* the bar is drawn at 0 and lines 212-255 are skipped
RunWithoutGenerate(button) ==
    /\ pc = "idle"
    /\ clicked' = button
    /\ progress_bar' = 0
    /\ trace' = <<>>
    /\ votes_rendered' = FALSE
    /\ uncaught' = FALSE
    /\ UNCHANGED <<feedback, pc, feedback_note, bg_music_path, tmp_files, runs>>

SelectTheme ==
    /\ \E t \in theme_options \cup other_themes :
          /\ t # final_theme
          /\ final_theme' = t
    /\ RunWithoutGenerate("none")
    /\ UNCHANGED voice_file
    /\ UNCHANGED <<themeVars, mixVars>>

UploadVoice ==
    /\ \E v \in voice_files :
          /\ v # voice_file
          /\ voice_file' = v
    /\ RunWithoutGenerate("none")
    /\ UNCHANGED final_theme
    /\ UNCHANGED <<themeVars, mixVars>>

ClickLike ==
    /\ votes_rendered
    /\ RunWithoutGenerate("like")
    /\ UNCHANGED <<final_theme, voice_file>>
    /\ UNCHANGED <<themeVars, mixVars>>

ClickDislike ==
    /\ votes_rendered
    /\ RunWithoutGenerate("dislike")
    /\ UNCHANGED <<final_theme, voice_file>>
    /\ UNCHANGED <<themeVars, mixVars>>

\* the click on Generate up to the call of openai.chat.completions.create
ClickGenerate ==
    /\ pc = "idle"
    /\ runs < MaxRuns
    /\ runs' = runs + 1
    /\ clicked' = "generate"
    /\ votes_rendered' = FALSE
    /\ uncaught' = FALSE
    /\ feedback_note' = feedback_note_for(feedback)
    /\ progress_bar' = 33
    /\ trace' = <<"enter:generation", "progress:33", "call:generation">>
    /\ pc' = "gen_call"
    /\ UNCHANGED <<feedback, final_theme, voice_file, bg_music_path, tmp_files>>
    /\ UNCHANGED <<themeVars, mixVars>>

\* what main does with the value generate_fairy_tale returned
AfterGeneration(fairy_tale, events) ==
    IF story_truthy(fairy_tale)
    THEN /\ bg_music_path' = pick_background_music(final_theme)
         /\ trace' = trace \o events \o <<"enter:synthesis", "call:model">>
         /\ pc' = "tts_load"
    ELSE /\ trace' = trace \o events
         /\ pc' = "idle"
         /\ UNCHANGED bg_music_path

\* the completion call returns a story, returns no text, or raises
GenerationReturns ==
    /\ pc = "gen_call"
    /\ \/ /\ progress_bar' = 66
          /\ AfterGeneration("story",
                <<"done:generation", "progress:66", "return:generation">>)
       \/ /\ progress_bar' = 66
          /\ AfterGeneration("",
                <<"done:generation", "progress:66", "return:generation">>)
       \/ /\ progress_bar' = progress_bar
          /\ AfterGeneration("None",
                <<"raise:generation", "error:generation", "return:generation">>)
    /\ UNCHANGED <<feedback, clicked, final_theme, voice_file, feedback_note,
                   tmp_files, votes_rendered, uncaught, runs>>
    /\ UNCHANGED <<themeVars, mixVars>>

\* except Exception of text_to_speech_coqui: st.error, return None; main
\* skips the mixing and goes on to the vote buttons
SynthesisFails ==
    /\ trace' = trace \o <<"raise:synthesis", "error:synthesis", "return:synthesis">>
    /\ pc' = "votes"

\* TTS(model_name=model_name)
ModelLoads ==
    /\ pc = "tts_load"
    /\ \/ /\ progress_bar' = 75
          /\ trace' = trace \o <<"done:model", "progress:75">>
          /\ pc' = IF voice_file # "none" THEN "tts_decode" ELSE "tts_synth"
       \/ /\ SynthesisFails
          /\ UNCHANGED progress_bar
    /\ UNCHANGED <<feedback, clicked, final_theme, voice_file, feedback_note,
                   bg_music_path, tmp_files, votes_rendered, uncaught, runs>>
    /\ UNCHANGED <<themeVars, mixVars>>

\* AudioSegment.from_file of the upload, then NamedTemporaryFile(delete=False)
DecodeUpload ==
    /\ pc = "tts_decode"
    /\ \/ /\ voice_file = "wav"
          /\ tmp_files' = tmp_files + 1
          /\ trace' = trace \o <<"tmp:created">>
          /\ pc' = "tts_export"
       \/ /\ voice_file = "broken"
          /\ trace' = trace \o <<"raise:decode", "error:decode", "return:synthesis">>
          /\ pc' = "votes"
          /\ UNCHANGED tmp_files
    /\ UNCHANGED <<feedback, clicked, final_theme, voice_file, feedback_note,
                   bg_music_path, progress_bar, votes_rendered, uncaught, runs>>
    /\ UNCHANGED <<themeVars, mixVars>>

\* audio_seg.export(tmp_wav.name); the with block closes the file
ExportVoice ==
    /\ pc = "tts_export"
    /\ \/ /\ trace' = trace \o <<"tmp:closed">>
          /\ pc' = "tts_synth"
       \/ SynthesisFails
    /\ UNCHANGED <<feedback, clicked, final_theme, voice_file, feedback_note,
                   bg_music_path, tmp_files, progress_bar, votes_rendered,
                   uncaught, runs>>
    /\ UNCHANGED <<themeVars, mixVars>>

\* tts.tts_to_file; on success main calls mix_audio_files
Synthesize ==
    /\ pc = "tts_synth"
    /\ \/ /\ progress_bar' = 90
          /\ trace' = trace \o <<"done:synthesis", "progress:90",
                                 "return:synthesis", "enter:mixing">>
          /\ pc' = "mix"
       \/ /\ SynthesisFails
          /\ UNCHANGED progress_bar
    /\ UNCHANGED <<feedback, clicked, final_theme, voice_file, feedback_note,
                   bg_music_path, tmp_files, votes_rendered, uncaught, runs>>
    /\ UNCHANGED <<themeVars, mixVars>>

\* a mutant of Mix: the bar is set to 100 before the mix is made
MixReportsFirst ==
    /\ pc = "mix"
    /\ progress_bar' = 100
    /\ \/ /\ trace' = trace \o <<"progress:100", "done:mixing", "return:mixing">>
          /\ pc' = "votes"
          /\ UNCHANGED uncaught
       \/ /\ trace' = trace \o <<"progress:100", "raise:mixing">>
          /\ uncaught' = TRUE
          /\ pc' = "idle"
    /\ UNCHANGED <<feedback, clicked, final_theme, voice_file, feedback_note,
                   bg_music_path, tmp_files, votes_rendered, runs>>
    /\ UNCHANGED <<themeVars, mixVars>>

\* mix_audio_files has no try: an exception leaves main()
Mix ==
    /\ pc = "mix"
    /\ \/ /\ progress_bar' = 100
          /\ trace' = trace \o <<"done:mixing", "progress:100", "return:mixing">>
          /\ pc' = "votes"
          /\ UNCHANGED uncaught
       \/ /\ trace' = trace \o <<"raise:mixing">>
          /\ uncaught' = TRUE
          /\ pc' = "idle"
          /\ UNCHANGED progress_bar
    /\ UNCHANGED <<feedback, clicked, final_theme, voice_file, feedback_note,
                   bg_music_path, tmp_files, votes_rendered, runs>>
    /\ UNCHANGED <<themeVars, mixVars>>

\* lines 246-255, inside  if st.button("Generate Fairy Tale")
RenderVotes ==
    /\ pc = "votes"
    /\ feedback' = IF clicked = "like" THEN "like"
                   ELSE IF clicked = "dislike" THEN "dislike"
                   ELSE feedback
    /\ votes_rendered' = TRUE
    /\ pc' = "idle"
    /\ UNCHANGED <<clicked, final_theme, voice_file, feedback_note,
                   bg_music_path, tmp_files, trace, progress_bar, uncaught, runs>>
    /\ UNCHANGED <<themeVars, mixVars>>

(***************************************************************************)
(* Specifications.                                                         *)
(***************************************************************************)
IdleTheme == theme = <<>> /\ typed = 0 /\ result = "" /\ picked = FALSE

IdleMix ==
    /\ narration = <<>> /\ background = <<>> /\ fade_out_ms = 1
    /\ mix_pc = "idle" /\ times_to_repeat = 0
    /\ cut_bg = <<>> /\ faded_bg = <<>> /\ final_mix = <<>>

IdleApp ==
    /\ feedback = "none" /\ pc = "off" /\ clicked = "none"
    /\ final_theme = <<>> /\ voice_file = "none" /\ feedback_note = ""
    /\ bg_music_path = "" /\ tmp_files = 0 /\ trace = <<>>
    /\ progress_bar = 0 /\ votes_rendered = FALSE /\ uncaught = FALSE
    /\ runs = 0

Init == IdleTheme /\ IdleMix /\ InitApp

Next ==
    \/ SelectTheme
    \/ UploadVoice
    \/ ClickGenerate
    \/ GenerationReturns
    \/ ModelLoads
    \/ DecodeUpload
    \/ ExportVoice
    \/ Synthesize
    \/ Mix
    \/ RenderVotes
    \/ ClickLike
    \/ ClickDislike

Spec == Init /\ [][Next]_vars

InitThemeOnly == InitTheme /\ IdleMix /\ IdleApp

NextTheme == TypePiece \/ Pick

SpecTheme == InitThemeOnly /\ [][NextTheme]_vars

InitMixOnly == IdleTheme /\ InitMix /\ IdleApp

NextMix == MixAudioFiles

SpecMix == InitMixOnly /\ [][NextMix]_vars

(***************************************************************************)
(* Properties of pick_background_music (SpecTheme).                        *)
(***************************************************************************)
upper_of(c) ==
    IF \E i \in 1..Len(LowerCase) : LowerCase[i] = c
    THEN UpperCase[CHOOSE i \in 1..Len(LowerCase) : LowerCase[i] = c]
    ELSE c

\* key occurs in t at offset off, letters compared without regard to case
occurs_at(key, t, off) ==
    /\ off + Len(key) <= Len(t)
    /\ \A i \in 1..Len(key) : t[off + i] \in {key[i], upper_of(key[i])}

\* the table entries whose keyword occurs in t
known_in(t) ==
    { i \in 1..Len(THEME_MUSIC_MAP) :
        \E off \in 0..Len(t) : occurs_at(THEME_MUSIC_MAP[i].key, t, off) }

first_of(S) == CHOOSE i \in S : \A j \in S : i <= j

all_assets ==
    { THEME_MUSIC_MAP[i].music_file : i \in 1..Len(THEME_MUSIC_MAP) }
        \cup {DEFAULT_BG_MUSIC}

\* C2: a theme that contains a known keyword, in any case, resolves to the
\* asset of a keyword it contains; a theme that contains none (the empty
\* theme included) resolves to DEFAULT_BG_MUSIC.
C2_ResolveKnownOrDefault ==
    picked =>
        IF known_in(theme) = {}
        THEN result = DEFAULT_BG_MUSIC
        ELSE \E i \in known_in(theme) : result = THEME_MUSIC_MAP[i].music_file

\* a theme typed in upper case that holds one keyword has been resolved
C2_Witness ==
    /\ picked
    /\ theme = <<"s","E">> \o <<"A">>
    /\ result = "background_sound/sea.wav"

\* C3: when the theme contains several keywords the asset returned is that
\* of the keyword first in the table's order, wherever the keywords stand in
\* the theme; the call always yields an asset and changes nothing else.
C3_FirstInTableOrder ==
    [][ (~picked /\ picked') =>
          /\ result' \in all_assets
          /\ known_in(theme) # {} =>
                result' = THEME_MUSIC_MAP[first_of(known_in(theme))].music_file
          /\ UNCHANGED <<theme, typed, mixVars, appVars>> ]_vars

\* "sea" stands before "space" in the theme, "space" before "sea" in the table
C3_Witness ==
    /\ picked
    /\ theme = <<"s","e","a">> \o <<" ">> \o <<"S","P","A","C","E">>
    /\ known_in(theme) = {1, 5}
    /\ result = "background_sound/space.wav"

(***************************************************************************)
(* Properties of mix_audio_files (SpecMix).                                *)
(***************************************************************************)
MixDone == mix_pc = "done"
D == Len(narration)
B == Len(background)

\* C1: whatever D and B, the mixed audio lasts exactly D.
C1_MixLastsD == MixDone => Len(final_mix) = D

\* C4: the fade acts on the background cut to D.  With fade_out_ms <= D the
\* last sample carries the last step of the fade and only the last
\* fade_out_ms samples are scaled by it; with fade_out_ms > D every sample
\* of the buffer is scaled by the fade and the buffer still lasts D.
C4_FadeOnCutBackground ==
    MixDone =>
        IF fade_out_ms <= D
        THEN /\ Len(faded_bg) = D
             /\ faded_bg[D].fade = fade_out_ms - 1
             /\ \A t \in 1..D :
                   (faded_bg[t].fade # NoFade) <=> (t > D - fade_out_ms)
        ELSE /\ Len(faded_bg) = D
             /\ \A t \in 1..Len(faded_bg) : faded_bg[t].fade # NoFade

\* C5: when B < D the background cut to D is the source repeated back to
\* back: position t holds the source's content at t mod B, for t in [0, D).
C5_LoopHasNoGap ==
    (MixDone /\ B < D) =>
        /\ Len(cut_bg) = D
        /\ \A t \in 0..(D - 1) : cut_bg[t + 1] = background[(t % B) + 1]

\* a background of at least 2 looped into a length it does not divide
C5_Witness ==
    /\ MixDone
    /\ 2 <= B /\ B < D /\ D % B # 0
    /\ cut_bg[D].pos = D % B

\* the least m with m * B >= D
ceil_div(n, d) == CHOOSE m \in 0..n : m * d >= n /\ \A k \in 0..n : k * d >= n => m <= k

\* C9: the background is looped exactly when B < D; unlooped it is cut to
\* its first D; looped, the count n is floor(D / B) + 1, so n * B >= D and
\* n is ceil(D / B) or one more.
C9_LoopIffShorter ==
    MixDone =>
        /\ (times_to_repeat # 0) <=> (B < D)
        /\ B >= D => cut_bg = SubSeq(background, 1, D)
        /\ B < D =>
              /\ (times_to_repeat - 1) * B <= D
              /\ D < times_to_repeat * B
              /\ times_to_repeat - ceil_div(D, B) \in {0, 1}

\* B divides D: the count is one more than ceil(D / B)
C9_Witness ==
    /\ MixDone
    /\ B < D /\ D % B = 0
    /\ times_to_repeat = ceil_div(D, B) + 1

(***************************************************************************)
(* Properties of the Streamlit script (Spec).                              *)
(***************************************************************************)
stage_entries == {"enter:generation", "enter:synthesis", "enter:mixing"}
stage_failures == {"raise:generation", "raise:synthesis", "raise:decode",
                   "raise:mixing"}
Events == 1..Len(trace)
Before(a, i) == \E j \in 1..(i - 1) : trace[j] = a
Logged(a) == \E i \in Events : trace[i] = a

\* C6: in a run a stage failure is reported, nothing is invoked after it,
\* and no stage is invoked twice.
C6_FailureIsTerminal ==
    /\ \A i \in Events : trace[i] \in stage_failures =>
          /\ \A j \in Events : j > i =>
                trace[j] \notin stage_entries
                    \cup {"call:generation", "call:model", "tmp:created"}
          /\ pc \in {"idle", "votes"}
    /\ Logged("raise:generation") => Logged("error:generation")
    /\ Logged("raise:synthesis") => Logged("error:synthesis")
    /\ Logged("raise:decode") => Logged("error:decode")
    /\ Logged("raise:mixing") => uncaught
    /\ \A i, j \in Events :
          (trace[i] \in stage_entries /\ trace[i] = trace[j]) => i = j

\* a run that ended on a failed generation
C6_Witness ==
    /\ pc = "idle"
    /\ trace = <<"enter:generation", "progress:33", "call:generation",
                 "raise:generation", "error:generation", "return:generation">>

\* C7: the run caused by a click on Like or Dislike leaves that vote in
\* FeedbackState, and the next generation takes its hint from it.
C7_VoteSetsFeedback ==
    /\ (pc = "idle" /\ clicked \in {"like", "dislike"}) => feedback = clicked
    /\ pc = "gen_call" => feedback_note = feedback_note_for(feedback)

\* C8: once text_to_speech_coqui has returned, no temporary file it made
\* is left.
C8_TempFilesRemoved ==
    pc \notin {"tts_export", "tts_synth"} => tmp_files = 0

\* the stages start in the order generation, synthesis, mixing, each after
\* the one before it has returned
StagesInOrder ==
    \A i \in Events :
        /\ trace[i] = "enter:generation" => i = 1
        /\ trace[i] = "enter:synthesis" => Before("return:generation", i)
        /\ trace[i] = "enter:mixing" => Before("return:synthesis", i)

milestone_value(e) ==
    CASE e = "progress:33" -> 33
      [] e = "progress:66" -> 66
      [] e = "progress:75" -> 75
      [] e = "progress:90" -> 90
      [] e = "progress:100" -> 100
      [] OTHER -> 0

\* the milestones reported in a run increase
MilestonesIncrease ==
    \A i, j \in Events :
        (i < j /\ milestone_value(trace[i]) > 0 /\ milestone_value(trace[j]) > 0)
            => milestone_value(trace[i]) < milestone_value(trace[j])

HundredAfterMixing ==
    \A i \in Events : trace[i] = "progress:100" => Before("done:mixing", i)

\* C10 as stated: every milestone is reported only after a stage completed.
C10_EveryMilestoneAfterAStage ==
    /\ StagesInOrder
    /\ MilestonesIncrease
    /\ HundredAfterMixing
    /\ \A i \in Events : milestone_value(trace[i]) > 0 =>
          \/ Before("done:generation", i)
          \/ Before("done:synthesis", i)
          \/ Before("done:mixing", i)

\* C10 amended: the stages run in order; the milestones increase; 33 is
\* reported when generation starts, before its completion call is made; 66
\* after the story came back, 75 after the story and the speech model, 90
\* after the synthesis, 100 once mixing has produced its output.
C10_MilestonesInOrder ==
    /\ StagesInOrder
    /\ MilestonesIncrease
    /\ HundredAfterMixing
    /\ \A i \in Events :
          /\ trace[i] = "progress:33" =>
                Before("enter:generation", i) /\ ~Before("call:generation", i)
          /\ trace[i] = "progress:66" => Before("done:generation", i)
          /\ trace[i] = "progress:75" =>
                Before("done:generation", i) /\ Before("done:model", i)
          /\ trace[i] = "progress:90" => Before("done:synthesis", i)
    /\ progress_bar > 0 => Logged("progress:33")

\* a run that went through the three stages
C10_Witness ==
    /\ progress_bar = 100
    /\ Logged("progress:33") /\ Logged("progress:66") /\ Logged("progress:75")
    /\ Logged("progress:90") /\ Logged("progress:100")
    /\ Logged("return:mixing")

====
